---- MODULE Spec2Model ----
(***************************************************************************)
(* Bicameral sync daemon (scripts/bicameral/sync.py): two Redis streams,   *)
(* one on the local broker and one on the VPS broker, and the daemon that  *)
(* copies new stream entries in both directions while keeping a cursor     *)
(* pair that it persists under a key of the local broker. Also the         *)
(* connection resolution of the clients (client.py, listener.py): local    *)
(* broker first, then the VPS; and the message bus of client.py: send      *)
(* (stream append, two broadcasts, overflow file) and listen (XREAD loop   *)
(* with its filter and its reconnect handler).                             *)
(***************************************************************************)
EXTENDS Integers, Sequences, FiniteSets, TLC

(* ---------------------------------------------------------------------- *)
(* Bounds                                                                 *)
(* ---------------------------------------------------------------------- *)
\* number of messages producers publish in one behaviour
MaxPublish == 3
\* the broker clocks show a millisecond in 1..MaxMs
MaxMs == 2
\* number of faults (broker outages, kills, interrupts) in one behaviour
MaxFaults == 1
\* number of connection resolutions in one behaviour
MaxResolve == 3
\* number of send() calls in one behaviour
MaxSend == 1
\* the longest string a caller passes as type or content
MaxLen == 2

(* ---------------------------------------------------------------------- *)
(* Program constants                                                      *)
(* ---------------------------------------------------------------------- *)
\* count=100 of the daemon's XREAD
XREAD_COUNT == 100
\* count=10 of the XREAD of BicameralClient.listen
LISTEN_COUNT == 10

(* ---------------------------------------------------------------------- *)
(* Stream ids                                                             *)
(* ---------------------------------------------------------------------- *)
\* The position '$' of XREAD: "entries added after this call".
Dollar == <<-1, -1>>
\* The last id of an empty stream, 0-0.
ZeroId == <<0, 0>>

\* Redis compares stream ids by the millisecond part, then the sequence part.
IdLess(a, b) == a[1] < b[1] \/ (a[1] = b[1] /\ a[2] < b[2])

Range(s) == {s[i] : i \in 1..Len(s)}
Ids(log) == {log[i].id : i \in 1..Len(log)}

\* last id of a stream (its top item; nothing is ever deleted or trimmed)
TopId(log) == IF Len(log) = 0 THEN ZeroId ELSE log[Len(log)].id

\* XADD key * : the id the broker mints when its clock shows ms
MintId(log, ms) ==
    IF ms > TopId(log)[1] THEN <<ms, 0>>
    ELSE <<TopId(log)[1], TopId(log)[2] + 1>>

\* XADD key <id> : accepted only when id is greater than the stream's top id
XaddAccepts(log, id) == IdLess(TopId(log), id)

\* the record the daemon hands to XADD for a record it read from the source
SyncRecord(rec) == [id |-> rec.id, data |-> rec.data]

\* variant: the id is left to the destination broker (XADD key *)
XaddMinted(log, rec) ==
    Append(log, [id |-> MintId(log, rec.id[1]), data |-> rec.data])

\* variant: a rejected id is retried with an id minted by the destination
XaddOrMint(log, rec) ==
    IF XaddAccepts(log, rec.id) THEN Append(log, SyncRecord(rec))
    ELSE Append(log, [id |-> MintId(log, rec.id[1]), data |-> rec.data])

\* variant: the broker appends whatever id it is given
XaddUnchecked(log, rec) == Append(log, SyncRecord(rec))

\* XADD with an explicit id: the stream after the call
XaddWithId(log, rec) ==
    IF XaddAccepts(log, rec.id) THEN Append(log, SyncRecord(rec)) ELSE log

RECURSIVE SelectAfter(_, _)
\* the entries of a stream with id greater than from, in stream order
SelectAfter(log, from) ==
    IF Len(log) = 0 THEN <<>>
    ELSE IF IdLess(from, log[1].id)
         THEN <<log[1]>> \o SelectAfter(Tail(log), from)
         ELSE SelectAfter(Tail(log), from)

Take(s, n) == IF Len(s) <= n THEN s ELSE SubSeq(s, 1, n)

\* the position XREAD starts from: '$' is the stream's top id at call time
ResolveFrom(log, cursor) == IF cursor = Dollar THEN TopId(log) ELSE cursor

\* variant: the read starts from the beginning of the stream (id 0)
XreadFromStart(log, cursor, count) == Take(SelectAfter(log, ZeroId), count)

\* XREAD {key: cursor} COUNT count : what is available without blocking
Xread(log, cursor, count) == Take(SelectAfter(log, ResolveFrom(log, cursor)), count)

\* the state blob of _save_sync_state
StateBlob(l, v) == [local_last_id |-> l, vps_last_id |-> v]

NoBlob == [local_last_id |-> <<-2, -2>>, vps_last_id |-> <<-2, -2>>]

\* get_history has not been called
NoHistory == [count |-> 0, got |-> <<>>]

\* no payload is followed
NoCodec == [stage |-> "none"]

(* ---------------------------------------------------------------------- *)
(* State                                                                  *)
(* ---------------------------------------------------------------------- *)
VARIABLES
    localLog,       \* stream bicameral:stream:collab on the local broker
    vpsLog,         \* the same stream on the VPS broker
    localUp,        \* the local broker answers
    vpsUp,          \* the VPS broker answers
    syncState,      \* value of key sync:state on the local broker (NoBlob: unset)
    vps,            \* self.vps is set (FALSE: None)
    local_last_id,  \* self.local_last_id
    vps_last_id,    \* self.vps_last_id
    running,        \* self.running
    pc,             \* where the daemon process is
    entries,        \* the messages of the XREAD reply not yet handled
    nextMsg,        \* number of the next message a producer creates
    origin,         \* origin[m]: where and when message m was published
    lastXadd,       \* outcome of the daemon's last XADD
    hiCursor,       \* the highest id each cursor has held so far
    faults,         \* number of faults so far
    published,      \* number of publishes so far
    clientRedis,    \* self.redis of the BicameralClient ("unset": no client yet)
    listenerRedis,  \* r of listener.main ("unset": no listener yet)
    listenLost,     \* listen() is in its redis.ConnectionError handler
    payloads,       \* payloads[m]: the payload of the m-th send() and its handle
    sendPc,         \* the statement of SendSteps send() is at (0: no send running)
    sendHandle,     \* self.redis of the client whose send() is running
    sends,          \* sends[m]: what the m-th send() did and returned
    realtime,       \* messages published on channel bicameral:realtime
    directed,       \* messages published on the channel <from>:to_<to>
    fallback,       \* the lines of ~/.bicameral/failed_messages.jsonl
    diskUp,         \* a write to that file succeeds
    listenPc,       \* where listen() is
    current_id,     \* current_id of listen()
    delivered,      \* the messages listen() has passed to its callback
    handed,         \* the records passed to the callback, in the order of the calls
    readFails,      \* XREADs of listen() that raised since its last good one
    heard,          \* messages appended to the stream listen() reads, since
                    \* it was called and while its connection was up
    resolved,       \* the connection resolutions made so far, with what they probed
    history,        \* the last get_history call: its count and what it returned
    codec           \* one payload on its way: as send built it, as the field
                    \* of its record, of the replicated record, and as read

vars == <<localLog, vpsLog, localUp, vpsUp, syncState, vps, local_last_id,
          vps_last_id, running, pc, entries, nextMsg, origin,
          lastXadd, hiCursor, faults, published,
          clientRedis, listenerRedis, listenLost, resolved,
          payloads, sendPc, sendHandle, sends, realtime, directed, fallback,
          diskUp, listenPc, current_id, delivered, handed, readFails, heard,
          history, codec>>

logVars == <<localLog, vpsLog>>
brokerVars == <<localUp, vpsUp>>
cursorVars == <<local_last_id, vps_last_id>>
ghostVars == <<lastXadd, hiCursor, faults, published>>
busVars == <<payloads, sendPc, sendHandle, sends, realtime, directed, fallback,
             diskUp>>
listenVars == <<listenPc, current_id, delivered, handed, readFails, heard>>
clientVars == <<clientRedis, listenerRedis, listenLost, resolved, busVars,
                listenVars, history, codec>>

\* RedisSyncDaemon.__init__ and an empty deployment: everything but the
\* payload that is followed
Fresh ==
    /\ localLog = <<>>
    /\ vpsLog = <<>>
    /\ localUp = TRUE
    /\ vpsUp = TRUE
    /\ syncState = NoBlob
    /\ vps = FALSE
    /\ local_last_id = Dollar
    /\ vps_last_id = Dollar
    /\ running = TRUE
    /\ pc = "start"
    /\ entries = <<>>
    /\ nextMsg = 1
    /\ origin = <<>>
    /\ lastXadd = "none"
    /\ hiCursor = [l |-> ZeroId, v |-> ZeroId]
    /\ faults = 0
    /\ published = 0
    /\ clientRedis = "unset"
    /\ listenerRedis = "unset"
    /\ listenLost = FALSE
    /\ payloads = <<>>
    /\ sendPc = 0
    /\ sendHandle = "none"
    /\ sends = <<>>
    /\ realtime = {}
    /\ directed = {}
    /\ fallback = <<>>
    /\ diskUp = TRUE
    /\ listenPc = "off"
    /\ current_id = Dollar
    /\ delivered = {}
    /\ handed = <<>>
    /\ readFails = 0
    /\ heard = {}
    /\ resolved = <<>>
    /\ history = NoHistory

Init == Fresh /\ codec = NoCodec

(* ---------------------------------------------------------------------- *)
(* The daemon                                                             *)
(* ---------------------------------------------------------------------- *)
\* one more fault happens
Fault == faults < MaxFaults /\ faults' = faults + 1
quietVars == <<lastXadd, hiCursor, published>>

IdMax(a, b) == IF IdLess(a, b) THEN b ELSE a

\* _load_sync_state: the cursor pair after the load
LoadedCursors(blob, l, v) ==
    IF blob = NoBlob THEN <<l, v>> ELSE <<blob.local_last_id, blob.vps_last_id>>

\* run() up to the loop: connect() pings local, then the VPS, then loads the
\* persisted cursors; an unreachable local broker makes run() return.
Connect ==
    /\ pc = "start"
    /\ IF ~localUp
       THEN /\ pc' = "exited"
            /\ UNCHANGED <<vps, cursorVars>>
       ELSE /\ vps' = vpsUp
            /\ local_last_id' = LoadedCursors(syncState, local_last_id, vps_last_id)[1]
            /\ vps_last_id' = LoadedCursors(syncState, local_last_id, vps_last_id)[2]
            /\ pc' = "l2v"
    /\ UNCHANGED <<logVars, brokerVars, syncState, running, entries, nextMsg,
                   origin, ghostVars>>
    /\ UNCHANGED clientVars

\* sync_local_to_vps, the guard and the XREAD on the local stream
SyncLocalToVpsRead ==
    /\ pc = "l2v"
    /\ IF ~vps
       THEN /\ pc' = "v2l"
            /\ UNCHANGED entries
       ELSE IF ~localUp
       THEN \* XREAD raises; _reconnect_vps returns at once since self.vps is set
            /\ pc' = "v2l"
            /\ UNCHANGED entries
       ELSE IF Xread(localLog, local_last_id, XREAD_COUNT) # <<>>
       THEN /\ entries' = Xread(localLog, local_last_id, XREAD_COUNT)
            /\ pc' = "l2v_add"
       ELSE \* block=0: wait until the stream gets a new entry
            /\ pc' = "l2v_wait"
            /\ UNCHANGED entries
    /\ UNCHANGED <<logVars, brokerVars, syncState, vps, cursorVars, running,
                   nextMsg, origin, ghostVars>>
    /\ UNCHANGED clientVars

\* what the daemon's XADD with an explicit id comes to
XaddOutcome(up, log, rec) ==
    IF ~up THEN "down"
    ELSE IF XaddAccepts(log, rec.id) THEN "ok"
    ELSE IF rec.id \in Ids(log) THEN "dup"
    ELSE "stale"

\* the destination stream after the daemon's XADD
XaddResult(up, log, rec) == IF up THEN XaddWithId(log, rec) ELSE log

\* variant: the cursor moves only when the XADD succeeded
CursorIfAdded(cursor, rec, outcome) == IF outcome = "ok" THEN rec.id ELSE cursor

\* the cursor after the XADD of rec: the except clause swallows every failure
\* and the assignment that follows it always runs
CursorAfterXadd(cursor, rec, outcome) == rec.id

\* sync_local_to_vps, one turn of the inner loop: XADD to the VPS with the
\* source id, every exception swallowed, then the cursor moves to the id
SyncLocalToVpsAdd ==
    /\ pc = "l2v_add"
    /\ vpsLog' = XaddResult(vpsUp, vpsLog, Head(entries))
    /\ local_last_id' = CursorAfterXadd(local_last_id, Head(entries),
                                        XaddOutcome(vpsUp, vpsLog, Head(entries)))
    /\ entries' = Tail(entries)
    /\ pc' = IF Tail(entries) = <<>> THEN "l2v_save" ELSE "l2v_add"
    /\ lastXadd' = XaddOutcome(vpsUp, vpsLog, Head(entries))
    /\ hiCursor' = [hiCursor EXCEPT !.l = IdMax(@, local_last_id')]
    /\ UNCHANGED <<localLog, brokerVars, syncState, vps, vps_last_id, running,
                   nextMsg, origin, faults, published>>
    /\ UNCHANGED clientVars

\* variant: each direction writes its own cursor only, the other field stays
SavedOneCursor(up, blob, l, v) ==
    IF up THEN StateBlob(l, blob.vps_last_id) ELSE blob

\* variant: a failed write leaves the key without a value
SavedOrCleared(up, blob, l, v) == IF up THEN StateBlob(l, v) ELSE NoBlob

\* _save_sync_state: one SET of the blob on the local broker, errors swallowed
SavedState(up, blob, l, v) == IF up THEN StateBlob(l, v) ELSE blob

SyncLocalToVpsSave ==
    /\ pc = "l2v_save"
    /\ syncState' = SavedState(localUp, syncState, local_last_id, vps_last_id)
    /\ pc' = "v2l"
    /\ UNCHANGED <<logVars, brokerVars, vps, cursorVars, running, entries,
                   nextMsg, origin, ghostVars>>
    /\ UNCHANGED clientVars

\* sync_vps_to_local, the guard and the XREAD on the VPS stream
SyncVpsToLocalRead ==
    /\ pc = "v2l"
    /\ IF ~vps
       THEN /\ pc' = "sleep"
            /\ UNCHANGED entries
       ELSE IF ~vpsUp
       THEN /\ pc' = "sleep"
            /\ UNCHANGED entries
       ELSE IF Xread(vpsLog, vps_last_id, XREAD_COUNT) # <<>>
       THEN /\ entries' = Xread(vpsLog, vps_last_id, XREAD_COUNT)
            /\ pc' = "v2l_add"
       ELSE /\ pc' = "v2l_wait"
            /\ UNCHANGED entries
    /\ UNCHANGED <<logVars, brokerVars, syncState, vps, cursorVars, running,
                   nextMsg, origin, ghostVars>>
    /\ UNCHANGED clientVars

SyncVpsToLocalAdd ==
    /\ pc = "v2l_add"
    /\ localLog' = XaddResult(localUp, localLog, Head(entries))
    /\ vps_last_id' = CursorAfterXadd(vps_last_id, Head(entries),
                                      XaddOutcome(localUp, localLog, Head(entries)))
    /\ entries' = Tail(entries)
    /\ pc' = IF Tail(entries) = <<>> THEN "v2l_save" ELSE "v2l_add"
    /\ lastXadd' = XaddOutcome(localUp, localLog, Head(entries))
    /\ hiCursor' = [hiCursor EXCEPT !.v = IdMax(@, vps_last_id')]
    /\ UNCHANGED <<vpsLog, brokerVars, syncState, vps, local_last_id, running,
                   nextMsg, origin, faults, published>>
    /\ UNCHANGED clientVars

SyncVpsToLocalSave ==
    /\ pc = "v2l_save"
    /\ syncState' = SavedState(localUp, syncState, local_last_id, vps_last_id)
    /\ pc' = "sleep"
    /\ UNCHANGED <<logVars, brokerVars, vps, cursorVars, running, entries,
                   nextMsg, origin, ghostVars>>
    /\ UNCHANGED clientVars

\* time.sleep(SYNC_INTERVAL), then the loop test and the next pass
Sleep ==
    /\ pc = "sleep"
    /\ running
    /\ pc' = "l2v"
    /\ UNCHANGED <<logVars, brokerVars, syncState, vps, cursorVars, running,
                   entries, nextMsg, origin, ghostVars>>
    /\ UNCHANGED clientVars

InLoop == {"l2v", "l2v_wait", "l2v_add", "l2v_save",
           "v2l", "v2l_wait", "v2l_add", "v2l_save", "sleep"}

\* KeyboardInterrupt reaching run()'s handler: the flag is cleared, the loop
\* ends and run() returns
Interrupt ==
    /\ pc \in InLoop
    /\ Fault
    /\ running' = FALSE
    /\ pc' = "stopped"
    /\ UNCHANGED <<logVars, brokerVars, syncState, vps, cursorVars, entries,
                   nextMsg, origin, quietVars>>
    /\ UNCHANGED clientVars

\* KeyboardInterrupt raised inside the XADD call: the bare except around it
\* swallows it, the entry is not added, the cursor moves on
InterruptDuringXadd ==
    /\ pc \in {"l2v_add", "v2l_add"}
    /\ Fault
    /\ IF pc = "l2v_add"
       THEN /\ local_last_id' = Head(entries).id
            /\ hiCursor' = [hiCursor EXCEPT !.l = IdMax(@, Head(entries).id)]
            /\ pc' = IF Tail(entries) = <<>> THEN "l2v_save" ELSE "l2v_add"
            /\ UNCHANGED vps_last_id
       ELSE /\ vps_last_id' = Head(entries).id
            /\ hiCursor' = [hiCursor EXCEPT !.v = IdMax(@, Head(entries).id)]
            /\ pc' = IF Tail(entries) = <<>> THEN "v2l_save" ELSE "v2l_add"
            /\ UNCHANGED local_last_id
    /\ entries' = Tail(entries)
    /\ lastXadd' = "interrupted"
    /\ UNCHANGED <<logVars, brokerVars, syncState, vps, running, nextMsg,
                   origin, published>>
    /\ UNCHANGED clientVars

\* a new daemon process: RedisSyncDaemon.__init__
NewProcess ==
    /\ vps' = FALSE
    /\ local_last_id' = Dollar
    /\ vps_last_id' = Dollar
    /\ running' = TRUE
    /\ entries' = <<>>
    /\ pc' = "start"

\* the process is killed at any point of the loop and started again
Crash ==
    /\ pc \in InLoop
    /\ Fault
    /\ NewProcess
    /\ UNCHANGED <<logVars, brokerVars, syncState, nextMsg, origin, quietVars>>
    /\ UNCHANGED clientVars

\* the daemon is started again after run() returned
Restart ==
    /\ pc \in {"stopped", "exited"}
    /\ NewProcess
    /\ UNCHANGED <<logVars, brokerVars, syncState, nextMsg, origin, ghostVars>>
    /\ UNCHANGED clientVars

(* ---------------------------------------------------------------------- *)
(* Producers and brokers                                                  *)
(* ---------------------------------------------------------------------- *)
\* no daemon process is in its loop
DaemonDown == pc \in {"start", "stopped", "exited"}

\* what is remembered of a publish: the broker, and whether the daemon was
\* down with a persisted cursor pair at that time
Published(at) == [at |-> at, down |-> DaemonDown /\ syncState # NoBlob]

\* BicameralClient.send on a client connected to the local broker: XADD key *
\* A daemon blocked in XREAD on this stream is served the new entry.
PublishLocal ==
    /\ published < MaxPublish
    /\ localUp
    /\ \E ms \in 1..MaxMs :
         LET rec == [id |-> MintId(localLog, ms), data |-> nextMsg] IN
         /\ localLog' = Append(localLog, rec)
         /\ IF pc = "l2v_wait"
            THEN /\ entries' = <<rec>>
                 /\ pc' = "l2v_add"
            ELSE UNCHANGED <<entries, pc>>
    /\ nextMsg' = nextMsg + 1
    /\ origin' = Append(origin, Published("local"))
    /\ published' = published + 1
    /\ UNCHANGED <<vpsLog, brokerVars, syncState, vps, cursorVars, running,
                   lastXadd, hiCursor, faults>>
    /\ UNCHANGED clientVars

\* the same on a client connected to the VPS broker
PublishVps ==
    /\ published < MaxPublish
    /\ vpsUp
    /\ \E ms \in 1..MaxMs :
         LET rec == [id |-> MintId(vpsLog, ms), data |-> nextMsg] IN
         /\ vpsLog' = Append(vpsLog, rec)
         /\ IF pc = "v2l_wait"
            THEN /\ entries' = <<rec>>
                 /\ pc' = "v2l_add"
            ELSE UNCHANGED <<entries, pc>>
    /\ nextMsg' = nextMsg + 1
    /\ origin' = Append(origin, Published("vps"))
    /\ published' = published + 1
    /\ UNCHANGED <<localLog, brokerVars, syncState, vps, cursorVars, running,
                   lastXadd, hiCursor, faults>>
    /\ UNCHANGED clientVars

\* the local broker becomes unreachable; a blocked XREAD on it raises
LocalDown ==
    /\ localUp
    /\ Fault
    /\ localUp' = FALSE
    /\ pc' = IF pc = "l2v_wait" THEN "v2l" ELSE pc
    /\ UNCHANGED <<logVars, vpsUp, syncState, vps, cursorVars, running, entries,
                   nextMsg, origin, quietVars>>
    /\ UNCHANGED clientVars

LocalBack ==
    /\ ~localUp
    /\ localUp' = TRUE
    /\ UNCHANGED <<logVars, vpsUp, syncState, vps, cursorVars, running, pc,
                   entries, nextMsg, origin, ghostVars>>
    /\ UNCHANGED clientVars

\* the VPS broker becomes unreachable; a blocked XREAD on it raises
VpsDown ==
    /\ vpsUp
    /\ Fault
    /\ vpsUp' = FALSE
    /\ pc' = IF pc = "v2l_wait" THEN "sleep" ELSE pc
    /\ UNCHANGED <<logVars, localUp, syncState, vps, cursorVars, running, entries,
                   nextMsg, origin, quietVars>>
    /\ UNCHANGED clientVars

VpsBack ==
    /\ ~vpsUp
    /\ vpsUp' = TRUE
    /\ UNCHANGED <<logVars, localUp, syncState, vps, cursorVars, running, pc,
                   entries, nextMsg, origin, ghostVars>>
    /\ UNCHANGED clientVars

Next ==
    \/ Connect
    \/ SyncLocalToVpsRead
    \/ SyncLocalToVpsAdd
    \/ SyncLocalToVpsSave
    \/ SyncVpsToLocalRead
    \/ SyncVpsToLocalAdd
    \/ SyncVpsToLocalSave
    \/ Sleep
    \/ Interrupt
    \/ InterruptDuringXadd
    \/ Crash
    \/ Restart
    \/ PublishLocal
    \/ PublishVps
    \/ LocalDown
    \/ LocalBack
    \/ VpsDown
    \/ VpsBack

Spec == Init /\ [][Next]_vars

\* The deployment at the start of a pass of a running daemon, after message 1
\* (published to local) and message 2 (published to the VPS) were replicated
\* and, during the sleep, message 3 was published to local and message 4 to
\* the VPS: local = [1,2,3], VPS = [1,2,4] with 3 < 4. Spec reaches this
\* state with four publishes.
ScenarioInit ==
    /\ localLog = <<[id |-> <<1, 0>>, data |-> 1], [id |-> <<1, 1>>, data |-> 2],
                    [id |-> <<1, 2>>, data |-> 3]>>
    /\ vpsLog = <<[id |-> <<1, 0>>, data |-> 1], [id |-> <<1, 1>>, data |-> 2],
                  [id |-> <<2, 0>>, data |-> 4]>>
    /\ localUp = TRUE
    /\ vpsUp = TRUE
    /\ syncState = StateBlob(<<1, 0>>, <<1, 1>>)
    /\ vps = TRUE
    /\ local_last_id = <<1, 0>>
    /\ vps_last_id = <<1, 1>>
    /\ running = TRUE
    /\ pc = "l2v"
    /\ entries = <<>>
    /\ nextMsg = 5
    /\ origin = <<[at |-> "local", down |-> FALSE], [at |-> "vps", down |-> FALSE],
                  [at |-> "local", down |-> FALSE], [at |-> "vps", down |-> FALSE]>>
    /\ lastXadd = "ok"
    /\ hiCursor = [l |-> <<1, 0>>, v |-> <<1, 1>>]
    /\ faults = 0
    /\ published = 0
    /\ clientRedis = "unset"
    /\ listenerRedis = "unset"
    /\ listenLost = FALSE
    /\ payloads = <<>>
    /\ sendPc = 0
    /\ sendHandle = "none"
    /\ sends = <<>>
    /\ realtime = {}
    /\ directed = {}
    /\ fallback = <<>>
    /\ diskUp = TRUE
    /\ listenPc = "off"
    /\ current_id = Dollar
    /\ delivered = {}
    /\ handed = <<>>
    /\ readFails = 0
    /\ heard = {}
    /\ resolved = <<>>
    /\ history = NoHistory
    /\ codec = NoCodec

ScenarioSpec == ScenarioInit /\ [][Next]_vars

\* the steps of the daemon process itself: once started it keeps executing
\* run() as long as its next statement can be executed
DaemonStep ==
    \/ Connect
    \/ SyncLocalToVpsRead
    \/ SyncLocalToVpsAdd
    \/ SyncLocalToVpsSave
    \/ SyncVpsToLocalRead
    \/ SyncVpsToLocalAdd
    \/ SyncVpsToLocalSave
    \/ Sleep

\* Spec with a daemon process that is scheduled; producers and faults are
\* free to happen or not
LiveSpec == Spec /\ WF_vars(DaemonStep)

(* ---------------------------------------------------------------------- *)
(* Connection resolution (client.py, listener.py)                         *)
(* ---------------------------------------------------------------------- *)
\* variant: the VPS is tried before the local broker
HostsVpsFirst == <<"vps", "local">>

\* hosts_to_try: local first, then the VPS
hosts_to_try == <<"local", "vps">>

\* redis.Redis(host...).ping() answers
Ping(host, lUp, vUp) == IF host = "local" THEN lUp ELSE vUp

RECURSIVE FirstAliveOrLast(_, _, _)
\* variant: a loop that ends without an answer returns its last handle
FirstAliveOrLast(hosts, lUp, vUp) ==
    IF hosts = <<>> THEN "none"
    ELSE IF Ping(Head(hosts), lUp, vUp) \/ Len(hosts) = 1 THEN Head(hosts)
    ELSE FirstAliveOrLast(Tail(hosts), lUp, vUp)

RECURSIVE FirstAlive(_, _, _)
\* the for loop over hosts_to_try: the first host whose ping answers, "none"
\* when the loop ends without a return
FirstAlive(hosts, lUp, vUp) ==
    IF hosts = <<>> THEN "none"
    ELSE IF Ping(Head(hosts), lUp, vUp) THEN Head(hosts)
    ELSE FirstAlive(Tail(hosts), lUp, vUp)

\* variant: the handle in use is kept as long as its broker answers
ConnectRedisSticky(current, lUp, vUp) ==
    IF current \in {"local", "vps"} /\ Ping(current, lUp, vUp) THEN current
    ELSE FirstAlive(hosts_to_try, lUp, vUp)

\* _connect_redis / connect_redis: the handle the call returns ("none": the
\* ConnectionError of the client, the None of the listener); the handle in
\* use before the call plays no part
ConnectRedis(current, lUp, vUp) == FirstAlive(hosts_to_try, lUp, vUp)

RECURSIVE Probes(_, _, _)
\* the hosts the for loop pings, in order: it stops at the first answer
Probes(hosts, lUp, vUp) ==
    IF hosts = <<>> THEN <<>>
    ELSE IF Ping(Head(hosts), lUp, vUp) THEN <<Head(hosts)>>
    ELSE <<Head(hosts)>> \o Probes(Tail(hosts), lUp, vUp)

\* the statement after the for loop: _connect_redis raises ConnectionError,
\* the listener's connect_redis returns None
AfterLoop(by) == IF by = "listener" THEN "None" ELSE "raise"

\* how a resolution ends for its caller
Outcome(by, got) == IF got = "none" THEN AfterLoop(by) ELSE "handle"

\* what is remembered of a resolution: who called, what the brokers would
\* have answered, the hosts pinged, the handle returned and how the call ended
Resolution(by, got) ==
    [by |-> by, local |-> localUp, vps |-> vpsUp, got |-> got,
     probed |-> Probes(hosts_to_try, localUp, vpsUp), outcome |-> Outcome(by, got)]

daemonVars == <<syncState, vps, local_last_id, vps_last_id, running, pc, entries,
                nextMsg, origin, ghostVars>>

\* BicameralClient.__init__ of a new client: self.redis = self._connect_redis()
ClientConnect ==
    /\ Len(resolved) < MaxResolve
    /\ clientRedis' = ConnectRedis("unset", localUp, vpsUp)
    /\ listenLost' = FALSE
    /\ resolved' = Append(resolved, Resolution("client", clientRedis'))
    /\ listenPc' = "off"
    /\ current_id' = Dollar
    /\ delivered' = {}
    /\ handed' = <<>>
    /\ readFails' = 0
    /\ heard' = {}
    /\ UNCHANGED <<logVars, brokerVars, daemonVars, history, codec, listenerRedis, busVars>>

\* the stream behind the handle h
LogOf(h) == IF h = "local" THEN localLog ELSE vpsLog

\* self.agent_name of the client that runs listen
agent_name == "a"

\* variant: the filter does not look at the author
AcceptsOwn(agent, payload) == payload.to = "all" \/ payload.to = agent

\* the filter of listen: addressed to this agent or to all, and not its own
Accepts(agent, payload) ==
    /\ payload.to = "all" \/ payload.to = agent
    /\ payload.from # agent

\* the messages among the entries of one XREAD reply that reach the callback
Callbacks(reply) ==
    {reply[i].data : i \in {j \in DOMAIN reply :
        /\ reply[j].data \in DOMAIN payloads
        /\ Accepts(agent_name, payloads[reply[j].data])}}

RECURSIVE Accepted(_)
\* the entries of one XREAD reply that reach the callback, in reply order
Accepted(reply) ==
    IF reply = <<>> THEN <<>>
    ELSE IF /\ Head(reply).data \in DOMAIN payloads
            /\ Accepts(agent_name, payloads[Head(reply).data])
         THEN <<Head(reply)>> \o Accepted(Tail(reply))
         ELSE Accepted(Tail(reply))

\* listen() is running on a connection to broker h that has not failed
Listening(h) == listenPc \in {"call", "wait"} /\ clientRedis = h /\ ~listenLost

\* an XADD of rec on the handle of the running send, seen from listen(): a
\* blocked XREAD on that stream returns the new entry if its id is after the
\* position the XREAD was called with ('$': any new entry)
Served(rec) ==
    IF /\ Listening(sendHandle) /\ listenPc = "wait"
       /\ (current_id = Dollar \/ IdLess(current_id, rec.id))
    THEN /\ delivered' = delivered \cup Callbacks(<<rec>>)
         /\ handed' = handed \o Accepted(<<rec>>)
         /\ current_id' = rec.id
         /\ listenPc' = "call"
         /\ readFails' = 0
         /\ heard' = heard \cup {rec.data}
    ELSE /\ heard' = IF Listening(sendHandle) THEN heard \cup {rec.data} ELSE heard
         /\ UNCHANGED <<listenPc, current_id, delivered, handed, readFails>>

\* one XREAD of listen from position cur that the broker answers: entries
\* after cur go through the filter and current_id moves to the last of
\* them; with none the call blocks (block=1000)
ReadTurn(cur) ==
    LET reply == Xread(LogOf(clientRedis), cur, LISTEN_COUNT) IN
    IF reply = <<>>
    THEN /\ listenPc' = "wait"
         /\ current_id' = cur
         /\ UNCHANGED <<delivered, handed>>
    ELSE /\ delivered' = delivered \cup Callbacks(reply)
         /\ handed' = handed \o Accepted(reply)
         /\ current_id' = reply[Len(reply)].id
         /\ listenPc' = "call"

\* BicameralClient.listen is called on the client: current_id = last_id = '$'
\* and the first XREAD is issued; on a broker that does not answer it raises
ListenStart ==
    /\ listenPc = "off"
    /\ clientRedis \in {"local", "vps"}
    /\ IF Ping(clientRedis, localUp, vpsUp)
       THEN /\ ReadTurn(Dollar)
            /\ readFails' = 0
            /\ UNCHANGED listenLost
       ELSE /\ listenPc' = "call"
            /\ current_id' = Dollar
            /\ listenLost' = TRUE
            /\ readFails' = readFails + 1
            /\ UNCHANGED <<delivered, handed>>
    /\ UNCHANGED <<logVars, brokerVars, daemonVars, history, codec, clientRedis, listenerRedis,
                   resolved, busVars, heard>>

\* BicameralClient.listen: the XREAD on self.redis raises redis.ConnectionError
ListenConnectionLost ==
    /\ listenPc \in {"call", "wait"}
    /\ clientRedis \in {"local", "vps"}
    /\ ~listenLost
    /\ ~Ping(clientRedis, localUp, vpsUp)
    /\ listenLost' = TRUE
    /\ readFails' = readFails + 1
    /\ UNCHANGED <<logVars, brokerVars, daemonVars, history, codec, clientRedis, listenerRedis,
                   resolved, busVars, listenPc, current_id, delivered, handed,
                   heard>>

\* BicameralClient.listen: the loop issues xread({STREAM_KEY: current_id},
\* count=10, block=1000) again
ListenRead ==
    /\ listenPc = "call"
    /\ ~listenLost
    /\ Ping(clientRedis, localUp, vpsUp)
    /\ ReadTurn(current_id)
    /\ readFails' = 0
    /\ UNCHANGED <<logVars, brokerVars, daemonVars, history, codec, clientRedis, listenerRedis,
                   listenLost, resolved, busVars, heard>>

\* BicameralClient.listen: the blocked XREAD returns nothing after 1000 ms and
\* the loop calls XREAD again with the same current_id
ListenTimeout ==
    /\ listenPc = "wait"
    /\ ~listenLost
    /\ Ping(clientRedis, localUp, vpsUp)
    /\ listenPc' = "call"
    /\ UNCHANGED <<logVars, brokerVars, daemonVars, history, codec, clientRedis, listenerRedis,
                   listenLost, resolved, busVars, current_id, delivered, handed,
                   readFails, heard>>

\* BicameralClient.listen, the handler: self.redis = self._connect_redis()
ListenReconnect ==
    /\ Len(resolved) < MaxResolve
    /\ listenLost
    /\ clientRedis' = ConnectRedis(clientRedis, localUp, vpsUp)
    /\ listenLost' = FALSE
    /\ resolved' = Append(resolved, Resolution("listen", clientRedis'))
    /\ listenPc' = IF clientRedis' = "none" THEN "raised" ELSE "call"
    /\ UNCHANGED <<logVars, brokerVars, daemonVars, history, codec, listenerRedis, busVars,
                   current_id, delivered, handed, readFails, heard>>

\* listener.main of a new listener process: r = connect_redis()
ListenerConnect ==
    /\ Len(resolved) < MaxResolve
    /\ listenerRedis' = ConnectRedis("unset", localUp, vpsUp)
    /\ resolved' = Append(resolved, Resolution("listener", listenerRedis'))
    /\ UNCHANGED <<logVars, brokerVars, daemonVars, history, codec, clientRedis, listenLost,
                   busVars, listenVars>>

\* a broker becomes unreachable, any number of times
LocalFails ==
    /\ localUp
    /\ localUp' = FALSE
    /\ UNCHANGED <<logVars, vpsUp, daemonVars, clientVars>>

VpsFails ==
    /\ vpsUp
    /\ vpsUp' = FALSE
    /\ UNCHANGED <<logVars, localUp, daemonVars, clientVars>>

\* variant: XRANGE with a count, the oldest entries in stream order
XrangeCount(log, count) == Take(log, count)

RECURSIVE Xrevrange(_, _)
\* XREVRANGE key + - COUNT count: from the last entry backwards, at most
\* count entries
Xrevrange(log, count) ==
    IF count = 0 \/ log = <<>> THEN <<>>
    ELSE <<log[Len(log)]>> \o Xrevrange(SubSeq(log, 1, Len(log) - 1), count - 1)

RECURSIVE Messages(_)
\* the loop of get_history over the entries: the decoded payload of each,
\* with its stream_id added
Messages(found) ==
    IF found = <<>> THEN <<>>
    ELSE <<[stream_id |-> Head(found).id, payload |-> Head(found).data]>>
         \o Messages(Tail(found))

\* BicameralClient.get_history(count) on the client: the messages of the
\* XREVRANGE reply; an error of the call is logged and [] is returned
GetHistory ==
    /\ clientRedis \in {"local", "vps"}
    /\ \E count \in 1..MaxPublish :
         history' = [count |-> count,
                     got |-> IF Ping(clientRedis, localUp, vpsUp)
                             THEN Messages(Xrevrange(LogOf(clientRedis), count))
                             ELSE <<>>]
    /\ UNCHANGED <<logVars, brokerVars, daemonVars, clientRedis, listenerRedis,
                   listenLost, resolved, busVars, listenVars, codec>>

(* ---------------------------------------------------------------------- *)
(* client.py: BicameralClient.send and the `bicameral send` command          *)
(* ---------------------------------------------------------------------- *)

\* agent names in use; a message is addressed to an agent or to 'all'
Agents == {"a", "b"}
Targets == Agents \cup {"all"}

\* variant: the broadcast on the global channel comes before the XADD
SendStepsPublishFirst == <<"publish_realtime", "xadd", "publish_directed">>

\* the statements of the try block of send, in program order
SendSteps == <<"xadd", "publish_realtime", "publish_directed">>

\* variant: the except branch does not write the overflow file
FallbackNever(file, m, failed) == file

\* variant: every send writes the overflow file
FallbackAlways(file, m, failed) == Append(file, m)

\* _save_to_fallback: the payload is appended as one line; an error of the
\* write is logged and swallowed
SaveToFallback(file, m, ok) == IF ok THEN Append(file, m) ELSE file

\* the except branch of send calls _save_to_fallback; a send that raised
\* nothing does not touch the file
FallbackAfter(file, m, failed) ==
    IF failed THEN SaveToFallback(file, m, diskUp) ELSE file

\* what send returns: msg_id, or None from the except branch
SendReturn(failed) == IF failed THEN "None" ELSE "id"

\* the `bicameral send` command: the value send returns is not looked at
CliSend(result) == [echo |-> "Message sent!", exit |-> 0]

\* a send in progress ends: the overflow file, the returned value, what the
\* command shows, and the statement that raised ("none": no statement did)
SendEnds(m, failed, at, tries) ==
    /\ fallback' = FallbackAfter(fallback, m, failed)
    /\ sends' = [sends EXCEPT ![m] =
                    [result |-> SendReturn(failed), raisedAt |-> at,
                     attempts |-> tries, cli |-> CliSend(SendReturn(failed))]]
    /\ sendPc' = 0

\* `bicameral send`: a client is constructed (its handle is the resolver's)
\* and send builds its payload
SendStart ==
    /\ sendPc = 0
    /\ Len(payloads) < MaxSend
    /\ ConnectRedis("unset", localUp, vpsUp) # "none"
    /\ \E from \in Agents, to \in Targets :
         payloads' = Append(payloads,
            [from |-> from, to |-> to,
             at |-> ConnectRedis("unset", localUp, vpsUp), vpsDown |-> ~vpsUp])
    /\ sendHandle' = ConnectRedis("unset", localUp, vpsUp)
    /\ sends' = Append(sends, [result |-> "pending", raisedAt |-> "none", attempts |-> 0,
                               cli |-> [echo |-> "", exit |-> 0]])
    /\ sendPc' = 1
    /\ UNCHANGED <<logVars, brokerVars, daemonVars, history, codec, clientRedis, listenerRedis,
                   listenLost, resolved, realtime, directed, fallback, diskUp,
                   listenVars>>

\* the next statement of the try block of send; a statement on a handle whose
\* broker does not answer raises, and the except branch ends the send
SendStep ==
    /\ sendPc \in DOMAIN SendSteps
    /\ LET m == Len(payloads)
           step == SendSteps[sendPc]
           tries == sends[m].attempts + (IF step = "xadd" THEN 1 ELSE 0)
           last == sendPc = Len(SendSteps)
       IN
       IF ~Ping(sendHandle, localUp, vpsUp)
       THEN /\ SendEnds(m, TRUE, step, tries)
            /\ UNCHANGED <<logVars, realtime, directed, listenVars>>
       ELSE /\ IF step = "xadd"
               THEN \E ms \in 1..MaxMs :
                      LET rec == [id |-> MintId(LogOf(sendHandle), ms), data |-> m] IN
                      /\ IF sendHandle = "local"
                         THEN localLog' = Append(localLog, rec) /\ UNCHANGED vpsLog
                         ELSE vpsLog' = Append(vpsLog, rec) /\ UNCHANGED localLog
                      /\ Served(rec)
               ELSE UNCHANGED <<logVars, listenVars>>
            /\ realtime' = IF step = "publish_realtime" THEN realtime \cup {m}
                           ELSE realtime
            /\ directed' = IF step = "publish_directed" THEN directed \cup {m}
                           ELSE directed
            /\ IF last
               THEN SendEnds(m, FALSE, "none", tries)
               ELSE /\ sendPc' = sendPc + 1
                    /\ sends' = [sends EXCEPT ![m].attempts = tries]
                    /\ UNCHANGED fallback
    /\ UNCHANGED <<brokerVars, daemonVars, history, codec, clientRedis, listenerRedis, listenLost,
                   resolved, payloads, sendHandle, diskUp>>

(* ---------------------------------------------------------------------- *)
(* client.py: the payload of a message, json.dumps and json.loads            *)
(* ---------------------------------------------------------------------- *)
\* characters of a string: a plain one, the two JSON has to escape, and one
\* outside ASCII
Plain == "x"
Quote == "\""
Backslash == "\\"
NonAscii == "U+00E9"
Chars == {Plain, Quote, Backslash, NonAscii}

\* the strings of at most MaxLen characters
Strings == UNION {[1..n -> Chars] : n \in 0..MaxLen}

\* the keys of the payload send builds, in the order of the dict
PayloadKeys == <<"id", "timestamp", "from", "to", "type", "message">>

\* the payload send builds: id and timestamp are generated, the agent names
\* are one token each, type and content are the caller's strings
Payload(from, to, type, content) ==
    [k \in Range(PayloadKeys) |->
        CASE k = "id" -> <<"9", "f", "-", "4">>
          [] k = "timestamp" -> <<"2", "0", "T", ":", ".">>
          [] k = "from" -> <<from>>
          [] k = "to" -> <<to>>
          [] k = "type" -> type
          [] k = "message" -> content]

\* variant: only the quote is escaped
EscapeQuoteOnly(c) == IF c = Quote THEN <<Backslash, Quote>> ELSE <<c>>

\* json.dumps of one character of a str (ensure_ascii is the default)
EscapeChar(c) ==
    IF c = Quote THEN <<Backslash, Quote>>
    ELSE IF c = Backslash THEN <<Backslash, Backslash>>
    ELSE IF c = NonAscii THEN <<Backslash, "u00e9">>
    ELSE <<c>>

RECURSIVE Escaped(_)
Escaped(str) == IF str = <<>> THEN <<>> ELSE EscapeChar(Head(str)) \o Escaped(Tail(str))

\* json.dumps of a str: the escaped characters between quotes
JsonString(str) == <<Quote>> \o Escaped(str) \o <<Quote>>

\* json.dumps of a dict of strings: its members in the order of the dict,
\* each a key and the text of its value
JsonDumps(dict, keys) == [i \in DOMAIN keys |-> <<keys[i], JsonString(dict[keys[i]])>>]

RECURSIVE Unescaped(_)
\* the characters of a JSON string text after its opening quote, up to the
\* closing quote
Unescaped(text) ==
    IF text = <<>> \/ Head(text) = Quote THEN <<>>
    ELSE IF Head(text) = Backslash
         THEN IF Len(text) = 1 THEN <<>>
              ELSE <<(IF text[2] = "u00e9" THEN NonAscii ELSE text[2])>>
                   \o Unescaped(SubSeq(text, 3, Len(text)))
         ELSE <<Head(text)>> \o Unescaped(Tail(text))

\* json.loads of the text of a dict of strings
JsonLoads(members) ==
    [k \in {members[i][1] : i \in DOMAIN members} |->
        LET i == CHOOSE j \in DOMAIN members : members[j][1] = k
        IN Unescaped(Tail(members[i][2]))]

\* payload['stream_id'] = stream_id
WithStreamId(payload, stream_id) ==
    [k \in DOMAIN payload \cup {"stream_id"} |->
        IF k = "stream_id" THEN stream_id ELSE payload[k]]

\* send has built a payload: nothing else has run
CodecInit ==
    /\ Fresh
    /\ \E from \in Agents, to \in Targets, type \in Strings, content \in Strings :
         codec = [stage |-> "built", payload |-> Payload(from, to, type, content),
                  id |-> <<1, 0>>, data |-> [payload |-> <<>>],
                  copied |-> FALSE, by |-> "none", read |-> <<>>]

\* send: xadd(STREAM_KEY, {'payload': json.dumps(payload)})
CodecSend ==
    /\ codec.stage = "built"
    /\ codec' = [codec EXCEPT !.stage = "stored",
                              !.data = [payload |-> JsonDumps(codec.payload, PayloadKeys)]]
    /\ UNCHANGED <<logVars, brokerVars, daemonVars, clientRedis, listenerRedis,
                   listenLost, resolved, busVars, listenVars, history>>

\* the daemon: xadd(STREAM_KEY, data, id=msg_id) with the data it read
CodecSync ==
    /\ codec.stage = "stored"
    /\ codec' = [codec EXCEPT !.stage = "copied", !.copied = TRUE,
                              !.data = SyncRecord([id |-> codec.id, data |-> codec.data]).data]
    /\ UNCHANGED <<logVars, brokerVars, daemonVars, clientRedis, listenerRedis,
                   listenLost, resolved, busVars, listenVars, history>>

\* listen: payload = json.loads(data.get('payload', '{}')), from the record
\* in the stream it was sent to or in the stream it was copied to
CodecListen ==
    /\ codec.stage \in {"stored", "copied"}
    /\ codec' = [codec EXCEPT !.stage = "read", !.by = "listen",
                              !.read = JsonLoads(codec.data.payload)]
    /\ UNCHANGED <<logVars, brokerVars, daemonVars, clientRedis, listenerRedis,
                   listenLost, resolved, busVars, listenVars, history>>

\* get_history: the same, and the id of the record is added
CodecHistory ==
    /\ codec.stage \in {"stored", "copied"}
    /\ codec' = [codec EXCEPT !.stage = "read", !.by = "get_history",
                              !.read = WithStreamId(JsonLoads(codec.data.payload),
                                                    codec.id)]
    /\ UNCHANGED <<logVars, brokerVars, daemonVars, clientRedis, listenerRedis,
                   listenLost, resolved, busVars, listenVars, history>>

CodecNext ==
    \/ CodecSend
    \/ CodecSync
    \/ CodecListen
    \/ CodecHistory

\* one payload from send to its readers
CodecSpec == CodecInit /\ [][CodecNext]_vars

(* ---------------------------------------------------------------------- *)
(* Specifications of the clients                                          *)
(* ---------------------------------------------------------------------- *)
ClientNext ==
    \/ ClientConnect
    \/ ListenStart
    \/ ListenRead
    \/ ListenTimeout
    \/ ListenConnectionLost
    \/ ListenReconnect
    \/ ListenerConnect
    \/ LocalFails
    \/ VpsFails
    \/ LocalBack
    \/ VpsBack

\* the clients and the brokers, no daemon process started
ClientSpec == Init /\ [][ClientNext]_vars

\* producers: clients that send, and brokers that come and go
SendNext ==
    \/ SendStart
    \/ SendStep
    \/ LocalFails
    \/ VpsFails
    \/ LocalBack
    \/ VpsBack

SendSpec == Init /\ [][SendNext]_vars

\* the file system refuses writes to the overflow file (disk full, no
\* permission), and accepts them again
DiskFails ==
    /\ diskUp
    /\ diskUp' = FALSE
    /\ UNCHANGED <<logVars, brokerVars, daemonVars, history, codec, clientRedis, listenerRedis,
                   listenLost, resolved, payloads, sendPc, sendHandle, sends,
                   realtime, directed, fallback, listenVars>>

DiskBack ==
    /\ ~diskUp
    /\ diskUp' = TRUE
    /\ UNCHANGED <<logVars, brokerVars, daemonVars, history, codec, clientRedis, listenerRedis,
                   listenLost, resolved, payloads, sendPc, sendHandle, sends,
                   realtime, directed, fallback, listenVars>>

\* producers, brokers that come and go, and a disk that comes and goes
SendDiskNext ==
    \/ SendNext
    \/ DiskFails
    \/ DiskBack

SendDiskSpec == Init /\ [][SendDiskNext]_vars

\* the message bus: clients that send and one client that listens, with
\* outages of the local broker. A listen() that has lost its connection
\* stays in its handler here, until a new client replaces it: what the
\* handler does next is part of ClientSpec.
BusNext ==
    \/ ClientConnect
    \/ ListenStart
    \/ ListenRead
    \/ ListenTimeout
    \/ ListenConnectionLost
    \/ SendStart
    \/ SendStep
    \/ LocalFails
    \/ LocalBack

BusSpec == Init /\ [][BusNext]_vars

\* one listen session that outlives its connection: a client that listens
\* and re-resolves its connection when it is lost, clients that send, and
\* outages of the local broker
SessionNext ==
    \/ ListenStart
    \/ ListenRead
    \/ ListenTimeout
    \/ ListenConnectionLost
    \/ ListenReconnect
    \/ SendStart
    \/ SendStep
    \/ LocalFails
    \/ LocalBack

\* a client has been constructed with both brokers answering and has not
\* called listen yet
SessionInit ==
    /\ localLog = <<>>
    /\ vpsLog = <<>>
    /\ localUp = TRUE
    /\ vpsUp = TRUE
    /\ syncState = NoBlob
    /\ vps = FALSE
    /\ local_last_id = Dollar
    /\ vps_last_id = Dollar
    /\ running = TRUE
    /\ pc = "start"
    /\ entries = <<>>
    /\ nextMsg = 1
    /\ origin = <<>>
    /\ lastXadd = "none"
    /\ hiCursor = [l |-> ZeroId, v |-> ZeroId]
    /\ faults = 0
    /\ published = 0
    /\ clientRedis = ConnectRedis("unset", TRUE, TRUE)
    /\ listenerRedis = "unset"
    /\ listenLost = FALSE
    /\ payloads = <<>>
    /\ sendPc = 0
    /\ sendHandle = "none"
    /\ sends = <<>>
    /\ realtime = {}
    /\ directed = {}
    /\ fallback = <<>>
    /\ diskUp = TRUE
    /\ listenPc = "off"
    /\ current_id = Dollar
    /\ delivered = {}
    /\ handed = <<>>
    /\ readFails = 0
    /\ heard = {}
    /\ resolved = <<Resolution("client", clientRedis)>>
    /\ history = NoHistory
    /\ codec = NoCodec

SessionSpec == SessionInit /\ [][SessionNext]_vars

\* a client has been constructed with both brokers answering and has not
\* called listen yet; the local stream holds two records of earlier messages
\* that were not addressed to its agent (their numbers are not in payloads)
HistoryInit ==
    /\ localLog = <<[id |-> <<1, 0>>, data |-> MaxSend + 1],
                    [id |-> <<1, 1>>, data |-> MaxSend + 2]>>
    /\ vpsLog = <<>>
    /\ localUp = TRUE
    /\ vpsUp = TRUE
    /\ syncState = NoBlob
    /\ vps = FALSE
    /\ local_last_id = Dollar
    /\ vps_last_id = Dollar
    /\ running = TRUE
    /\ pc = "start"
    /\ entries = <<>>
    /\ nextMsg = 1
    /\ origin = <<>>
    /\ lastXadd = "none"
    /\ hiCursor = [l |-> ZeroId, v |-> ZeroId]
    /\ faults = 0
    /\ published = 0
    /\ clientRedis = ConnectRedis("unset", TRUE, TRUE)
    /\ listenerRedis = "unset"
    /\ listenLost = FALSE
    /\ payloads = <<>>
    /\ sendPc = 0
    /\ sendHandle = "none"
    /\ sends = <<>>
    /\ realtime = {}
    /\ directed = {}
    /\ fallback = <<>>
    /\ diskUp = TRUE
    /\ listenPc = "off"
    /\ current_id = Dollar
    /\ delivered = {}
    /\ handed = <<>>
    /\ readFails = 0
    /\ heard = {}
    /\ resolved = <<Resolution("client", clientRedis)>>
    /\ history = NoHistory
    /\ codec = NoCodec

\* a client that listens and calls get_history while clients send; the
\* local broker may stop answering
HistoryNext ==
    \/ ListenStart
    \/ ListenRead
    \/ ListenTimeout
    \/ ListenConnectionLost
    \/ GetHistory
    \/ SendStart
    \/ SendStep
    \/ LocalFails

HistorySpec == HistoryInit /\ [][HistoryNext]_vars

(* ---------------------------------------------------------------------- *)
(* Properties                                                             *)
(* ---------------------------------------------------------------------- *)
\* the daemon holds a VPS handle, both brokers answer, both cursors are
\* record ids, and neither direction has anything left to read: with no new
\* publish, no further pass can change either stream
Quiescent ==
    /\ pc \in {"l2v_wait", "v2l_wait"}
    /\ vps /\ localUp /\ vpsUp
    /\ faults = 0
    /\ local_last_id # Dollar /\ vps_last_id # Dollar
    /\ Xread(localLog, local_last_id, XREAD_COUNT) = <<>>
    /\ Xread(vpsLog, vps_last_id, XREAD_COUNT) = <<>>

\* C1: eventual consistency. Once the daemon has nothing left to read in
\* either direction (so that further passes cannot change the streams), the
\* local and the VPS stream hold the same set of record ids.
C1_EventuallyConsistent == Quiescent => Ids(localLog) = Ids(vpsLog)

\* C2: from local = {1,2,3} and VPS = {1,2,4}, a full pass (sync_local_to_vps
\* then sync_vps_to_local) that runs without a fault and without a publish in
\* between ends with both streams holding exactly the four ids {1,2,3,4}.
C2_ScenarioPassMerges ==
    (pc = "sleep" /\ faults = 0 /\ published = 0)
        => /\ Ids(localLog) = {<<1, 0>>, <<1, 1>>, <<1, 2>>, <<2, 0>>}
           /\ Ids(vpsLog) = {<<1, 0>>, <<1, 1>>, <<1, 2>>, <<2, 0>>}

\* log2 is log1 with one record appended, and that record is one of source
AppendedFrom(log1, log2, source) ==
    /\ Len(log2) = Len(log1) + 1
    /\ SubSeq(log2, 1, Len(log1)) = log1
    /\ log2[Len(log2)] \in Range(source)

\* C3: id-preserving replication. Whenever a step of the daemon's inner loop
\* changes the counterpart stream, it appends exactly one record, and that
\* record has the id and the fields of a record of the source stream.
C3_IdPreserved ==
    [][ /\ (pc = "l2v_add" /\ entries' = Tail(entries) /\ vpsLog' # vpsLog)
            => AppendedFrom(vpsLog, vpsLog', localLog)
        /\ (pc = "v2l_add" /\ entries' = Tail(entries) /\ localLog' # localLog)
            => AppendedFrom(localLog, localLog', vpsLog) ]_vars

\* a record published to the local broker is in the VPS stream, put there by
\* the XADD the daemon has just made; and the other way round
C3_Witness ==
    /\ lastXadd = "ok"
    /\ \/ /\ pc \in {"l2v_add", "l2v_save"}
          /\ \E i \in 1..Len(vpsLog) :
                /\ vpsLog[i].id = local_last_id
                /\ origin[vpsLog[i].data].at = "local"
       \/ /\ pc \in {"v2l_add", "v2l_save"}
          /\ \E i \in 1..Len(localLog) :
                /\ localLog[i].id = vps_last_id
                /\ origin[localLog[i].data].at = "vps"

\* C4: idempotent replay. When the daemon replays a record whose id the
\* destination stream already holds, the destination stream is unchanged and
\* the pass goes on: the record is consumed and the cursor moves to its id.
C4_ReplayIsNoOp ==
    [][ /\ (pc = "l2v_add" /\ pc' \in {"l2v_add", "l2v_save"}
                /\ entries' = Tail(entries)
                /\ Head(entries).id \in Ids(vpsLog))
            => /\ vpsLog' = vpsLog
               /\ local_last_id' = Head(entries).id
        /\ (pc = "v2l_add" /\ pc' \in {"v2l_add", "v2l_save"}
                /\ entries' = Tail(entries)
                /\ Head(entries).id \in Ids(localLog))
            => /\ localLog' = localLog
               /\ vps_last_id' = Head(entries).id ]_vars

\* the daemon's last XADD hit an id the destination already held, and the
\* cursor stands on that id
C4_Witness ==
    /\ lastXadd = "dup"
    /\ \/ pc \in {"l2v_add", "l2v_save"} /\ local_last_id \in Ids(vpsLog)
       \/ pc \in {"v2l_add", "v2l_save"} /\ vps_last_id \in Ids(localLog)

\* every record of source up to the cursor is in dest, same id, same fields
DeliveredUpTo(cursor, source, dest) ==
    cursor # Dollar =>
        \A i \in 1..Len(source) :
            ~IdLess(cursor, source[i].id) => source[i] \in Range(dest)

\* C5: cursor soundness. Every record of the local stream with id up to
\* local_last_id is in the VPS stream, and every record of the VPS stream
\* with id up to vps_last_id is in the local stream. Stated for the runs
\* without any fault, where the claim has to hold as well.
C5_CursorSound ==
    faults = 0 =>
    /\ DeliveredUpTo(local_last_id, localLog, vpsLog)
    /\ DeliveredUpTo(vps_last_id, vpsLog, localLog)

\* C6 as stated: a cursor that holds a record id is never below an id the
\* cursor held before, restarts and the reload of the blob included.
C6_NeverBelowEarlier ==
    /\ local_last_id # Dollar => ~IdLess(local_last_id, hiCursor.l)
    /\ vps_last_id # Dollar => ~IdLess(vps_last_id, hiCursor.v)

\* b is not behind a: '$' may become a record id, a record id may only grow
CursorLeq(a, b) == a = b \/ a = Dollar \/ (b # Dollar /\ IdLess(a, b))

\* C6 amended: within one run of the daemon, from the end of connect() to
\* the end of the process, each cursor is monotonically non-decreasing.
C6_MonotoneWithinRun ==
    [][ (pc \in InLoop /\ pc' \in InLoop \cup {"stopped"})
            => /\ CursorLeq(local_last_id, local_last_id')
               /\ CursorLeq(vps_last_id, vps_last_id') ]_vars

\* a running daemon whose cursors were loaded from the blob and have both
\* moved beyond the persisted ids
C6_Witness ==
    /\ pc \in InLoop
    /\ syncState # NoBlob
    /\ syncState.local_last_id # Dollar /\ syncState.vps_last_id # Dollar
    /\ IdLess(syncState.local_last_id, local_last_id)
    /\ IdLess(syncState.vps_last_id, vps_last_id)

\* the record of message m in log, if any, has been passed by cursor
PassedBy(cursor, log, m) ==
    \E i \in 1..Len(log) :
        /\ log[i].data = m
        /\ cursor # Dollar
        /\ ~IdLess(cursor, log[i].id)

InLog(log, m) == \E i \in 1..Len(log) : log[i].data = m

\* C7: restart resume. A record published while the daemon was down with a
\* persisted cursor pair is replicated after the restart: once the restarted
\* daemon's cursor has passed it, it is in the counterpart stream.
C7_DownRecordsReplicated ==
    \A m \in 1..Len(origin) :
        origin[m].down =>
            /\ (origin[m].at = "local" /\ PassedBy(local_last_id, localLog, m))
                    => InLog(vpsLog, m)
            /\ (origin[m].at = "vps" /\ PassedBy(vps_last_id, vpsLog, m))
                    => InLog(localLog, m)

\* C8: atomic cursor persistence. Every change of the persisted blob writes
\* both cursors at once, and the pair written is the daemon's in-memory pair
\* at that moment; nothing else (a crash, a restart) changes the blob.
C8_BlobIsOneMomentsPair ==
    [][ syncState' # syncState
            => /\ pc \in {"l2v_save", "v2l_save"}
               /\ syncState' = StateBlob(local_last_id, vps_last_id)
               /\ UNCHANGED cursorVars ]_vars

\* the daemon was killed after it had moved a cursor beyond the persisted
\* blob: the blob still holds the pair of the last save
C8_Witness ==
    /\ pc = "start"
    /\ faults > 0
    /\ syncState # NoBlob
    /\ syncState.local_last_id # Dollar
    /\ IdLess(syncState.local_last_id, hiCursor.l)

\* no two entries of the stream carry the same id or the same message
NoDuplicates(log) ==
    \A i, j \in 1..Len(log) :
        i # j => log[i].id # log[j].id /\ log[i].data # log[j].data

\* C9: crash safety. No stream ever holds the same record twice, neither
\* under its original id nor under another id.
C9_NoDuplicateRecords == NoDuplicates(localLog) /\ NoDuplicates(vpsLog)

\* after a kill between the XADD and the save, the restarted daemon has
\* replayed a record published to the local broker and found it in the VPS
\* stream already
C9_Witness ==
    /\ faults > 0
    /\ lastXadd = "dup"
    /\ pc \in {"l2v_add", "l2v_save"}
    /\ \E i \in 1..Len(vpsLog) :
          /\ vpsLog[i].id = local_last_id
          /\ origin[vpsLog[i].data].at = "local"

\* C10: clean shutdown. When run() has returned after an interrupt, the
\* persisted blob holds the daemon's in-memory cursor pair (a missing blob
\* standing for the pair a fresh daemon starts with).
C10_ShutdownPersistsCursors ==
    pc = "stopped"
        => LoadedCursors(syncState, Dollar, Dollar) = <<local_last_id, vps_last_id>>

\* the daemon is in its loop without a VPS handle (local-only mode)
LocalOnly == pc \in InLoop /\ ~vps

\* C11: automatic reconnection. A daemon in local-only mode eventually gets
\* a VPS handle again, unless the VPS is unreachable at some later moment or
\* the daemon process ends: with a VPS that stays reachable and a daemon that
\* keeps running, local-only mode does not last forever.
C11_ReconnectsToVps == LocalOnly ~> (vps \/ ~vpsUp \/ pc \notin InLoop)

\* the step is a read on the VPS handle that raises: the VPS does not answer
VpsReadFails == pc = "v2l" /\ vps /\ ~vpsUp /\ pc' = "sleep"

\* the step is an XADD on the VPS handle that raises
VpsAppendFails ==
    /\ pc = "l2v_add" /\ ~vpsUp
    /\ pc' \in {"l2v_add", "l2v_save"} /\ entries' = Tail(entries)

\* C12: an error in a direction's sync loop sends it back to Disconnected.
\* After a read or an append on the VPS handle has raised, the daemon has
\* dropped that handle (self.vps is None), so that its next step on it is a
\* reconnection and not another read or append.
C12_ErrorDisconnects == [][ (VpsReadFails \/ VpsAppendFails) => ~vps' ]_vars

\* a step of the daemon's loop other than the XADD of a record that was
\* read from the VPS stream before the VPS became unreachable
LoopStepOffVps ==
    /\ pc \in InLoop \ {"v2l_add"}
    /\ pc' \in InLoop
    /\ faults' = faults /\ published' = published

\* C13: local-first resilience. While the VPS broker is unreachable, a
\* publish to the local broker is possible whenever the local broker
\* answers, and no step of the daemon's loop changes the local stream or
\* the cursor pair.
C13_OutageLeavesLocalAndCursors ==
    [][ ~vpsUp =>
          /\ (localUp /\ published < MaxPublish) => ENABLED PublishLocal
          /\ LoopStepOffVps => UNCHANGED <<localLog, cursorVars>> ]_vars

\* the daemon runs with a VPS handle and both brokers answer
Healthy == pc \in InLoop /\ vps /\ localUp /\ vpsUp

\* the daemon is in sync_vps_to_local
InVpsToLocal == pc \in {"v2l", "v2l_wait", "v2l_add", "v2l_save"}

\* C14: the two directions are independent. A record in the VPS stream that
\* is not in the local stream does not wait for activity on the local
\* stream: with a healthy daemon, eventually the record is in the local
\* stream or, at the least, the VPS-to-local direction gets to run.
C14_VpsDirectionProgresses ==
    \A m \in 1..MaxPublish :
        (Healthy /\ InLog(vpsLog, m) /\ ~InLog(localLog, m))
            ~> (InLog(localLog, m) \/ InVpsToLocal \/ ~Healthy)

\* the daemon waits inside a blocking XREAD
InXreadWait == pc \in {"l2v_wait", "v2l_wait"}

\* C15: no step of the daemon loop waits forever. A daemon that waits in
\* the read-batch step leaves that wait after a bounded time, new records
\* or not, so that the loop gets to test its keep-running flag again.
C15_WaitEnds == InXreadWait ~> ~InXreadWait

\* run() has returned
Returned == pc \in {"exited", "stopped"}

\* C16: the daemon has no terminal state. run() returns only after the
\* daemon has been stopped from outside (its keep-running flag cleared by
\* the interrupt), whatever connection failures occurred.
C16_ReturnsOnlyWhenStopped == Returned => ~running

\* the ids of the stream strictly increase in append order
StrictlyIncreasing(log) ==
    \A i, j \in 1..Len(log) : i < j => IdLess(log[i].id, log[j].id)

\* C17: within each stream, record ids strictly increase in append order
\* and no id is used twice, in every reachable state, the states reached
\* through the daemon's appends with the source id included.
C17_IdsStrictlyIncrease == StrictlyIncreasing(localLog) /\ StrictlyIncreasing(vpsLog)

\* a stream holds a record published to it, followed by a record of the
\* other stream that the daemon appended under its source id
C17_Witness ==
    \/ \E i, j \in 1..Len(localLog) :
          /\ i < j
          /\ origin[localLog[i].data].at = "local"
          /\ origin[localLog[j].data].at = "vps"
    \/ \E i, j \in 1..Len(vpsLog) :
          /\ i < j
          /\ origin[vpsLog[i].data].at = "vps"
          /\ origin[vpsLog[j].data].at = "local"

RECURSIVE InnerLoop(_, _, _, _)
\* the inner loop of a direction over the batch it read: the destination
\* stream and the cursor once every message of the batch has been handled
InnerLoop(up, log, cursor, batch) ==
    IF batch = <<>> THEN <<log, cursor>>
    ELSE InnerLoop(up,
                   XaddResult(up, log, Head(batch)),
                   CursorAfterXadd(cursor, Head(batch),
                                   XaddOutcome(up, log, Head(batch))),
                   Tail(batch))

\* the streams and the cursors a pass works on
PassState == [local |-> localLog, vps |-> vpsLog,
              l |-> local_last_id, v |-> vps_last_id]

\* sync_local_to_vps as a whole, on what the XREAD finds when it is called
\* (nothing to read: the streams stay as they are while the call waits)
LocalToVpsPass(s) ==
    IF ~vps \/ ~localUp THEN s
    ELSE LET r == InnerLoop(vpsUp, s.vps, s.l, Xread(s.local, s.l, XREAD_COUNT))
         IN  [s EXCEPT !.vps = r[1], !.l = r[2]]

\* sync_vps_to_local as a whole
VpsToLocalPass(s) ==
    IF ~vps \/ ~vpsUp THEN s
    ELSE LET r == InnerLoop(localUp, s.local, s.v, Xread(s.vps, s.v, XREAD_COUNT))
         IN  [s EXCEPT !.local = r[1], !.v = r[2]]

LogsOf(s) == <<s.local, s.vps>>

\* the daemon is between two calls of a direction
BetweenPasses == pc \in {"l2v", "v2l", "sleep"}

C19_FirstAliveInOrder ==
    \A i \in 1..Len(resolved) :
        /\ resolved[i].got = "local" <=> resolved[i].local
        /\ resolved[i].got = "vps" <=> (~resolved[i].local /\ resolved[i].vps)
        /\ resolved[i].got = "none" <=> (~resolved[i].local /\ ~resolved[i].vps)

\* the client and the listener have each resolved, one of them to the VPS
\* because the local broker did not answer, and the handles are in use
C19_Witness ==
    /\ \E i \in 1..Len(resolved) :
          resolved[i].by = "client" /\ resolved[i].got = "vps" /\ ~resolved[i].local
    /\ \E i \in 1..Len(resolved) :
          resolved[i].by = "listener" /\ resolved[i].got = "local"
    /\ clientRedis = "vps"
    /\ listenerRedis = "local"

\* C20: local-first self-healing. Every resolution starts again from the
\* local broker whatever the earlier ones returned: with local down and the
\* VPS up the call returns the VPS handle, and a call made while the local
\* broker answers returns the local handle, also after an earlier call has
\* returned the VPS handle and while the VPS still answers.
C20_NextResolutionPrefersLocal ==
    \A i \in 1..Len(resolved) :
        /\ (~resolved[i].local /\ resolved[i].vps) => resolved[i].got = "vps"
        /\ \A j \in 1..Len(resolved) :
              (j < i /\ resolved[j].got = "vps" /\ resolved[i].local)
                  => resolved[i].got = "local"

\* a client resolved to the VPS while the local broker was down; its listen
\* loop lost the connection and resolved again after the local broker had
\* come back, with the VPS reachable too, and got the local handle, which
\* is the one in use
C20_Witness ==
    /\ clientRedis = "local"
    /\ \E i \in 1..(Len(resolved) - 1) :
          /\ resolved[i].by = "client" /\ resolved[i].got = "vps"
          /\ resolved[i + 1].by = "listen" /\ resolved[i + 1].got = "local"
          /\ resolved[i + 1].vps
          /\ i + 1 = Len(resolved)


\* a resolution made while no broker answered its ping
NoneAnswered(r) == ~r.local /\ ~r.vps

\* C21 as stated: when no candidate endpoint answers the liveness probe, the
\* resolution is raised as an error to its caller, yields no connection handle
\* and pings each candidate once, without a retry
C21_FailureIsRaised ==
    \A i \in DOMAIN resolved :
        NoneAnswered(resolved[i]) =>
            /\ resolved[i].got = "none"
            /\ resolved[i].probed = hosts_to_try
            /\ resolved[i].outcome = "raise"

\* C21 amended: when no candidate endpoint answers the liveness probe, the
\* resolution yields no connection handle and pings each candidate once,
\* without a retry; the client's resolver raises an error to its caller, the
\* listener's resolver returns None to its caller
C21_FailureYieldsNoHandle ==
    \A i \in DOMAIN resolved :
        NoneAnswered(resolved[i]) =>
            /\ resolved[i].got = "none"
            /\ resolved[i].probed = hosts_to_try
            /\ resolved[i].outcome # "handle"
            /\ resolved[i].by # "listener" => resolved[i].outcome = "raise"
            /\ resolved[i].by = "listener" => resolved[i].outcome = "None"

\* C21 witness: the client and the listener have each resolved while no
\* broker answered
C21_Witness ==
    /\ \E i \in DOMAIN resolved :
        NoneAnswered(resolved[i]) /\ resolved[i].by = "listener"
    /\ \E i \in DOMAIN resolved :
        NoneAnswered(resolved[i]) /\ resolved[i].by # "listener"


\* the durable record of message m is in the stream its sender appended to
Stored(m) == InLog(LogOf(payloads[m].at), m)

\* message m is in the overflow file
InFallback(m) == \E i \in DOMAIN fallback : fallback[i] = m

\* the m-th send has returned
Done(m) == sends[m].result # "pending"

\* C22: publish ordering. A message that has been broadcast, on the global or
\* on the directed channel, has its durable record in the stream already; the
\* directed broadcast comes after the global one; and a message whose append
\* raised is broadcast on neither channel.
C22_AppendBeforeBroadcasts ==
    \A m \in DOMAIN payloads :
        /\ m \in realtime \cup directed => Stored(m)
        /\ m \in directed => m \in realtime
        /\ sends[m].raisedAt = "xadd" => m \notin realtime \cup directed

\* C22 witness: a send is between its two broadcasts, the record stored
C22_Witness ==
    \E m \in DOMAIN payloads :
        ~Done(m) /\ m \in realtime /\ m \notin directed /\ Stored(m)

C24_FailureIsVisible ==
    \A m \in DOMAIN payloads :
        (Done(m) /\ sends[m].raisedAt # "none") =>
            /\ sends[m].result # SendReturn(FALSE)
            /\ sends[m].cli # CliSend(SendReturn(FALSE))

\* C25: the overflow file holds only messages that reached no broker. No
\* message is both in a durable log and in the overflow file.
C25_NeverInLogAndOverflow ==
    \A m \in DOMAIN payloads :
        ~((InLog(localLog, m) \/ InLog(vpsLog, m)) /\ InFallback(m))

\* the scenario of C26: a send of {from: a, to: b} made while the remote
\* broker was unreachable, on the local broker, which answered every statement
LocalOnlySend(m) ==
    /\ payloads[m].from = "a" /\ payloads[m].to = "b"
    /\ payloads[m].vpsDown /\ payloads[m].at = "local"
    /\ Done(m) /\ sends[m].raisedAt = "none"

\* C26 as stated: a publish in local-only mode returns a record id and the
\* message also appears in the overflow file
C26_LocalOnlyAlsoInOverflow ==
    \A m \in DOMAIN payloads :
        LocalOnlySend(m) => (sends[m].result = "id" /\ InFallback(m))

\* C26 amended: a publish in local-only mode returns a record id, the message
\* is in the local durable log, and it is not in the overflow file
C26_LocalOnlyStoredNotInOverflow ==
    \A m \in DOMAIN payloads :
        LocalOnlySend(m) =>
            (sends[m].result = "id" /\ InLog(localLog, m) /\ ~InFallback(m))

\* C26 witness: such a send has returned
C26_Witness == \E m \in DOMAIN payloads : LocalOnlySend(m)

\* C27: a publish that loses its connection re-resolves and retries once. A
\* message is written to the overflow file only after a second attempt.
C27_RetriesOnceBeforeFallback ==
    \A m \in DOMAIN payloads : InFallback(m) => sends[m].attempts = 2


\* C28: connection loss during listen. After a second read in a row has
\* raised, listen has stopped and raised to its caller: it is not reading again.
C28_StopsAfterSecondFailure ==
    (readFails >= 2 /\ ~listenLost) => listenPc = "raised"

\* C29: subscription filter. Every message handed to the callback of the
\* subscriber is addressed to its agent or to all, and is not authored by it.
C29_OnlyAddressedAndForeign ==
    \A m \in delivered :
        /\ payloads[m].to = agent_name \/ payloads[m].to = "all"
        /\ payloads[m].from # agent_name

\* C29 witness: a message has been handed to the callback
C29_Witness == \E m \in delivered : Stored(m)

\* C30: broadcast delivery. A message to all from another agent, appended to
\* the stream while the subscriber was listening on it, has been handed to
\* the callback by the time the subscriber has read the stream to its end and
\* waits again; a message authored by the subscriber is never handed to it.
C30_BroadcastReachesSubscriber ==
    /\ \A m \in heard :
        (/\ payloads[m].to = "all"
         /\ payloads[m].from # agent_name
         /\ listenPc = "wait") => m \in delivered
    /\ \A m \in delivered : payloads[m].from # agent_name


\* the step is one turn of a direction's inner loop: the XADD of the first
\* entry of the reply and what follows it
AppendTurn ==
    /\ pc \in {"l2v_add", "v2l_add"}
    /\ entries' = Tail(entries)
    /\ pc' \in InLoop

\* C34: a transport error of the XADD is not taken for a duplicate. When the
\* XADD raised because the destination broker did not answer, the direction
\* fails: the inner loop does not go on to the next entry or to the save,
\* and the cursor does not move to the record; when the XADD was rejected as
\* a duplicate, the cursor moves to the record.
C34_TransportErrorSurfaces ==
    [][ AppendTurn =>
          /\ lastXadd' = "down" =>
                /\ UNCHANGED cursorVars
                /\ pc' \notin {"l2v_add", "l2v_save", "v2l_add", "v2l_save"}
          /\ lastXadd' = "dup" =>
                (IF pc = "l2v_add" THEN local_last_id' ELSE vps_last_id')
                    = Head(entries).id ]_vars


\* the step is the _save_sync_state call that ends a direction's pass
SaveTurn ==
    \/ pc = "l2v_save" /\ pc' = "v2l"
    \/ pc = "v2l_save" /\ pc' = "sleep"

\* C35: persistence failure policy. A save always returns to the pass, which
\* goes on, with the in-memory cursors as they were; a save whose write fails
\* leaves the blob as it was, and a save whose write succeeds persists the
\* cursor pair the daemon then holds.
C35_SaveFailureIsNotFatal ==
    [][ /\ (pc \in {"l2v_save", "v2l_save"} /\ pc' \in InLoop \ {pc}) => SaveTurn
        /\ SaveTurn =>
            /\ UNCHANGED cursorVars
            /\ ~localUp => UNCHANGED syncState
            /\ localUp => syncState' = StateBlob(local_last_id, vps_last_id) ]_vars

\* C35 witness: a save has failed and the pass has gone on: the daemon is
\* past the save with a cursor that the blob does not have
C35_Witness ==
    /\ pc = "v2l"
    /\ ~localUp
    /\ local_last_id # Dollar
    /\ syncState # StateBlob(local_last_id, vps_last_id)


\* C39: id agreement between the logs. Two records with the same id, one in
\* the local stream and one in the VPS stream, carry the same message.
C39_SameIdSameMessage ==
    \A i \in DOMAIN localLog, j \in DOMAIN vpsLog :
        localLog[i].id = vpsLog[j].id => localLog[i].data = vpsLog[j].data


\* the record the inner loop is about to append came from the destination:
\* its message was published on the broker the XADD goes to
EchoTurn ==
    /\ AppendTurn
    /\ Head(entries).data \in DOMAIN origin
    /\ origin[Head(entries).data].at = (IF pc = "l2v_add" THEN "vps" ELSE "local")

\* the cursor of a direction rests on a record of its source stream whose
\* message was published on the other broker
RestsOnCopy(log, cursor, at) ==
    \E i \in DOMAIN log : log[i].id = cursor /\ origin[log[i].data].at = at

\* C40: replication does not echo. The append of a record that the daemon
\* had copied into the stream it now reads from changes neither stream, and
\* no stream ever holds more records than messages have been published.
C40_NoEcho ==
    [][ /\ EchoTurn => UNCHANGED logVars
        /\ Len(localLog') <= published'
        /\ Len(vpsLog') <= published' ]_vars

\* C40 witness: a direction has read back a record that the other direction
\* had copied, and its XADD was rejected as a duplicate
C40_Witness ==
    /\ lastXadd = "dup"
    /\ \/ pc = "l2v_save" /\ RestsOnCopy(localLog, local_last_id, "vps")
       \/ pc = "v2l_save" /\ RestsOnCopy(vpsLog, vps_last_id, "local")


\* C36: no message is lost by publish. Once send has returned for a message,
\* the message is in the stream of the client's broker or in the overflow
\* file, whichever of the append, the broadcasts and the overflow write failed.
C36_StoredOrInOverflow ==
    \A m \in DOMAIN payloads : Done(m) => (Stored(m) \/ InFallback(m))


NextReadFrom == ResolveFrom(LogOf(clientRedis), current_id)

\* C37: a live subscription misses nothing. A message that was appended while
\* listen was running, that its filter accepts and that has not been handed
\* to the callback yet, is still ahead of the position listen reads from
\* next, so that a later read returns it.
C37_NothingLeftBehind ==
    \A m \in heard \ delivered :
        (listenPc = "call" /\ ~listenLost /\ Accepts(agent_name, payloads[m])) =>
            \E i \in DOMAIN LogOf(clientRedis) :
                /\ LogOf(clientRedis)[i].data = m
                /\ IdLess(NextReadFrom, LogOf(clientRedis)[i].id)


LastFirst(log, n) ==
    [i \in 1..(IF n < Len(log) THEN n ELSE Len(log)) |-> log[Len(log) + 1 - i]]

\* the records a list of returned messages stands for
AsRecords(got) == [i \in DOMAIN got |-> [id |-> got[i].stream_id, data |-> got[i].payload]]

\* C32: get_history(count) on a client whose broker answers returns the last
\* count records of its stream, the most recent first, and the call changes
\* neither stream nor anything of the running listen: its read position, its
\* place in the loop, and what the callback has been handed.
C32_HistoryReadsOnly ==
    [][history' # history =>
        /\ Ping(clientRedis, localUp, vpsUp) =>
             AsRecords(history'.got) = LastFirst(LogOf(clientRedis), history'.count)
        /\ UNCHANGED <<localLog, vpsLog, listenPc, current_id, delivered, handed,
                       listenLost, clientRedis>>]_vars

\* C32 witness: a running listen has handed a record to its callback, and
\* a get_history call after that, with a count below the length of the
\* stream, returned that record first
C32_Witness ==
    /\ listenPc \in {"call", "wait"}
    /\ handed # <<>>
    /\ history.count > 0
    /\ history.count < Len(LogOf(clientRedis))
    /\ Len(history.got) = history.count
    /\ history.got[1].stream_id = handed[Len(handed)].id


\* C33: message round trip. What a reader decodes from the record of a
\* message, in the stream it was sent to or in the stream it was copied to,
\* has exactly the id, timestamp, from, to, type and content send built;
\* listen hands on exactly that dict, get_history adds the stream_id.
C33_RoundTrip ==
    codec.stage = "read" =>
        /\ \A i \in DOMAIN PayloadKeys :
            /\ PayloadKeys[i] \in DOMAIN codec.read
            /\ codec.read[PayloadKeys[i]] = codec.payload[PayloadKeys[i]]
        /\ codec.by = "listen" => codec.read = codec.payload
        /\ codec.by = "get_history" =>
            DOMAIN codec.read = Range(PayloadKeys) \cup {"stream_id"}

\* C33 witness: a content with a quote and a backslash in it was read back
\* from the copy of its record
C33_Witness ==
    /\ codec.stage = "read"
    /\ codec.data # [payload |-> <<>>]
    /\ codec.payload["message"] = <<Backslash, Quote>>
    /\ codec.read["message"] = <<Backslash, Quote>>
    /\ codec.copied

====
